---- MODULE Spec2Model ----
(***************************************************************************)
(* cardsharp: cards embedded in text documents, their identifier codec,    *)
(* the marker scan that mints and embeds identifiers, and the review       *)
(* session that consults the FSRS memory model.                            *)
(*                                                                         *)
(* Text is a sequence of one-character strings (all ASCII, so that a byte  *)
(* offset is an index).  A u64 is four limbs of sixteen bits, the most      *)
(* significant first.  An f32 is a fixed-point integer with four decimal   *)
(* digits.                                                                 *)
(***************************************************************************)
EXTENDS Integers, Sequences, FiniteSets, TLC

VARIABLES
    \* identifier codec (base64.rs)
    cpc, cid, ctoken, cres,
    \* card locator (main.rs, initialize_cards)
    docs, docs0, rg_status, matches, mi, written, prev_path, rng, cards, log,
    prevCards, prevLog, run, spc,
    \* review session (main.rs, main) and its store
    rcards, state_data, file, now, rpc, ci, retention, reviews, events,
    \* the store on its own (main.rs State::save, data.rs load_data/save_data)
    stpc, prior, saving, disk, loaded,
    \* the memory model on its own (fsrs.rs)
    fpc, fparams, fhistory,
    \* the card screen (ui.rs, review_card) and the terminal it drives
    upc, raw_mode, alternate_screen, winsize, ures, ureturn, uevents

codecVars == <<cpc, cid, ctoken, cres>>
scanVars ==
    <<docs, docs0, rg_status, matches, mi, written, prev_path, rng, cards, log,
      prevCards, prevLog, run, spc>>
reviewVars == <<rcards, state_data, file, now, rpc, ci, retention, reviews, events>>
storeVars == <<stpc, prior, saving, disk, loaded>>
fsrsVars == <<fpc, fparams, fhistory>>
uiVars == <<upc, raw_mode, alternate_screen, winsize, ures, ureturn, uevents>>

(***************************************************************************)
(* Option<T>                                                               *)
(***************************************************************************)
None == <<>>
Some(x) == <<x>>
IsSome(o) == Len(o) = 1
Unwrap(o) == o[1]

(***************************************************************************)
(* u64 arithmetic.  A u64 is kept as four limbs of sixteen bits, the most  *)
(* significant limb first; bits shifted out at either end are lost.        *)
(***************************************************************************)
U64Bits == 64
LimbBits == 16

\* every u64 is kept as an evaluated sequence of its limbs
Bits(f) == SubSeq(f, 1, U64Bits \div LimbBits)

Zero64 == Bits([i \in 1..(U64Bits \div LimbBits) |-> 0])

\* limb i of b, zero outside the value
LimbAt(b, i) == IF i >= 1 /\ i <= Len(b) THEN b[i] ELSE 0

\* limb j of data << (LimbBits * (j - i) + r), for the limb i it lands in
ShlLimb(b, j, r) ==
    ((LimbAt(b, j) * 2^r) % 2^LimbBits) + (LimbAt(b, j + 1) \div 2^(LimbBits - r))

\* data << k
Shl(b, k) ==
    LET q == k \div LimbBits
        r == k % LimbBits
    IN <<ShlLimb(b, 1 + q, r), ShlLimb(b, 2 + q, r),
         ShlLimb(b, 3 + q, r), ShlLimb(b, 4 + q, r)>>

\* limb j of data >> (LimbBits * (i - j) + r), for the limb i it lands in
ShrLimb(b, j, r) ==
    (LimbAt(b, j) \div 2^r) + ((LimbAt(b, j - 1) % 2^r) * 2^(LimbBits - r))

\* data >> k
Shr(b, k) ==
    LET q == k \div LimbBits
        r == k % LimbBits
    IN <<ShrLimb(b, 1 - q, r), ShrLimb(b, 2 - q, r),
         ShrLimb(b, 3 - q, r), ShrLimb(b, 4 - q, r)>>

\* x | y on two limbs
RECURSIVE LimbOr(_, _)
LimbOr(x, y) ==
    IF x = 0 THEN y
    ELSE IF y = 0 THEN x
    ELSE (IF x % 2 = 1 \/ y % 2 = 1 THEN 1 ELSE 0) + 2 * LimbOr(x \div 2, y \div 2)

BitOr(a, b) ==
    <<LimbOr(a[1], b[1]), LimbOr(a[2], b[2]), LimbOr(a[3], b[3]), LimbOr(a[4], b[4])>>

\* `as usize` of a u64 known to be small
AsUsize(b) == b[4] % (2^12)

\* `as u64` of a small usize
AsU64(n) == <<0, 0, 0, n % (2^12)>>

\* a u64 written as sixteen hexadecimal digits
Hex64(h) ==
    Bits([i \in 1..(U64Bits \div LimbBits) |->
            4096 * h[4 * i - 3] + 256 * h[4 * i - 2] + 16 * h[4 * i - 1] + h[4 * i]])

\* bit k of a u64, counted from the most significant one, as a limb value
BitOfLimb(i, k) ==
    IF (k - 1) \div LimbBits = i - 1 THEN 2^(LimbBits - 1 - ((k - 1) % LimbBits)) ELSE 0

(***************************************************************************)
(* base64.rs                                                               *)
(***************************************************************************)
ALPHABET ==
    << "A", "B", "C", "D", "E", "F", "G", "H", "I", "J", "K", "L", "M",
       "N", "O", "P", "Q", "R", "S", "T", "U", "V", "W", "X", "Y", "Z",
       "a", "b", "c", "d", "e", "f", "g", "h", "i", "j", "k", "l", "m",
       "n", "o", "p", "q", "r", "s", "t", "u", "v", "w", "x", "y", "z",
       "0", "1", "2", "3", "4", "5", "6", "7", "8", "9", "+", "/" >>

RECURSIVE to_base64_loop(_, _, _)
to_base64_loop(data, res, n) ==
    IF n = 0 THEN res
    ELSE to_base64_loop(Shl(data, 6),
                        Append(res, ALPHABET[AsUsize(Shr(data, 58)) + 1]),
                        n - 1)

to_base64(data) == Append(to_base64_loop(data, <<>>, 11), "=")

\* where each symbol stands in ALPHABET, one-based
AlphabetIndex ==
    [c \in {ALPHABET[k] : k \in 1..Len(ALPHABET)} |->
        CHOOSE k \in 1..Len(ALPHABET) : ALPHABET[k] = c]

\* ALPHABET.iter().position(|e| *e == i), zero-based
position(i) ==
    IF i \in DOMAIN AlphabetIndex THEN Some(AlphabetIndex[i] - 1) ELSE None

\* the mutant: every symbol, the last one included, contributes six bits
from_base64_stepAllSix(res, idx, len, p) == BitOr(Shl(res, 6), AsU64(p))

\* one symbol of the decoding loop: idx is zero-based, p its position
from_base64_step(res, idx, len, p) ==
    IF idx = len - 2
    THEN BitOr(Shl(res, 4), AsU64(p \div 4))
    ELSE BitOr(Shl(res, 6), AsU64(p))

RECURSIVE from_base64_loop(_, _, _)
from_base64_loop(data, idx, res) ==
    IF idx >= Len(data) THEN Some(res)
    ELSE IF data[idx + 1] = "=" THEN Some(res)
    ELSE LET pos == position(data[idx + 1])
         IN IF ~IsSome(pos) THEN None
            ELSE from_base64_loop(data, idx + 1,
                     from_base64_step(res, idx, Len(data), Unwrap(pos)))

from_base64(data) ==
    IF Len(data) # 12 THEN None ELSE from_base64_loop(data, 0, Zero64)


(***************************************************************************)
(* Text helpers (str methods of the Rust standard library)                 *)
(***************************************************************************)
\* &s[n..]
Drop(s, n) == IF n >= Len(s) THEN <<>> ELSE SubSeq(s, n + 1, Len(s))

\* &s[..n]
Take(s, n) == IF n >= Len(s) THEN s ELSE SubSeq(s, 1, n)

\* s.starts_with(p)
StartsWith(s, p) == Len(s) >= Len(p) /\ SubSeq(s, 1, Len(p)) = p

\* char::is_whitespace, on the characters the documents use
is_whitespace(c) == c \in {" ", "\n", "\t", "\r"}

\* s.find(pred): the zero-based index of the first character satisfying it,
\* searched from index k on
RECURSIVE FindWhitespaceFrom(_, _)
FindWhitespaceFrom(s, k) ==
    IF k >= Len(s) THEN None
    ELSE IF is_whitespace(s[k + 1]) THEN Some(k)
    ELSE FindWhitespaceFrom(s, k + 1)

FindWhitespace(s) == FindWhitespaceFrom(s, 0)

\* s.find('\n')
RECURSIVE FindNewlineFrom(_, _)
FindNewlineFrom(s, k) ==
    IF k >= Len(s) THEN None
    ELSE IF s[k + 1] = "\n" THEN Some(k)
    ELSE FindNewlineFrom(s, k + 1)

FindNewline(s) == FindNewlineFrom(s, 0)

RECURSIVE trim_start(_)
trim_start(s) ==
    IF s # <<>> /\ is_whitespace(s[1]) THEN trim_start(Drop(s, 1)) ELSE s

RECURSIVE trim_end(_)
trim_end(s) ==
    IF s # <<>> /\ is_whitespace(s[Len(s)]) THEN trim_end(Take(s, Len(s) - 1)) ELSE s

\* s.trim()
trim(s) == trim_end(trim_start(s))

\* BufRead::read_line at byte position pos: up to and including the next
\* newline, or to end of file; empty at or past end of file
read_line(content, pos) ==
    IF pos >= Len(content) THEN <<>>
    ELSE LET nl == FindNewlineFrom(content, pos)
         IN IF IsSome(nl) THEN SubSeq(content, pos + 1, Unwrap(nl) + 1)
            ELSE Drop(content, pos)

(***************************************************************************)
(* main.rs: the marker syntax                                              *)
(***************************************************************************)
Tag == <<"R", "E", "V", "I", "E", "W", ":">>
Sigil == <<"_", "_">>
Separator == <<"-", "-", "-", "\n">>

\* parse_title: Some(<<id, title>>) or None
parse_title(title) ==
    LET t1 == IF StartsWith(title, Tag) THEN Drop(title, 7) ELSE title
        t2 == trim_start(t1)
        t3 == Drop(t2, 2)
        ws == FindWhitespace(t3)
    IN IF ~StartsWith(t2, Sigil) THEN None
       ELSE IF ~IsSome(ws) THEN None
       ELSE LET id == from_base64(Take(t3, Unwrap(ws)))
            IN IF ~IsSome(id) THEN None
               ELSE Some(<<Unwrap(id), Drop(t3, Unwrap(ws) + 1)>>)

(***************************************************************************)
(* The search tool: `rg -0b REVIEW:` prints, for every line that contains  *)
(* the pattern, the file and the byte offset at which the line starts.     *)
(***************************************************************************)
Contains(s, p) == \E k \in 0..(Len(s) - Len(p)) : SubSeq(s, k + 1, k + Len(p)) = p

RECURSIVE rg_file(_, _, _)
rg_file(path, content, pos) ==
    IF pos >= Len(content) THEN <<>>
    ELSE LET line == read_line(content, pos)
         IN (IF Contains(line, Tag) THEN << <<path, pos>> >> ELSE <<>>)
            \o rg_file(path, content, pos + Len(line))

RECURSIVE rg(_, _, _)
rg(paths, d, k) ==
    IF k > Len(paths) THEN <<>>
    ELSE rg_file(paths[k], d[paths[k]], 0) \o rg(paths, d, k + 1)

(***************************************************************************)
(* main.rs: initialize_cards                                               *)
(***************************************************************************)
\* the body loop: lines from pos up to a marker line, a separator or EOF
RECURSIVE read_body(_, _, _)
read_body(content, pos, body) ==
    LET next_line == read_line(content, pos)
    IN IF StartsWith(next_line, Tag) \/ next_line = Separator \/ next_line = <<>>
       THEN body
       ELSE read_body(content, pos + Len(next_line), body \o next_line)

\* a write at position p: past the end of file the gap reads as NUL bytes
PadTo(s, p) == s \o [i \in 1..(p - Len(s)) |-> "\\0"]

\* the file after `seek(p); write(" __"); write(token); write(rest)`
patch(content, p, token) ==
    PadTo(Take(content, p), p) \o <<" ">> \o Sigil \o token \o Drop(content, p)

\* the title of a freshly patched card: rest up to its first newline
rest_title(content, p) ==
    LET rest == Drop(content, p)
        nl == FindNewline(rest)
    IN IF IsSome(nl) THEN Take(rest, Unwrap(nl)) ELSE rest

\* rand::random(): the thread's generator is seeded when the run first
\* draws from it, and RandomId(seed, n) is the n-th value it then returns
Seeds == {1, 2}
RandomId(seed, n) ==
    Hex64([i \in 1..16 |-> (5 * seed + 11 * n + i * (2 * n + 6 * seed + 1)) % 16])

\* an identifier already embedded in the documents
EmbeddedId == Hex64(<<15, 14, 7, 10, 15, 4, 1, 13, 15, 4, 2, 9, 11, 14, 8, 3>>)

(***************************************************************************)
(* The documents a scan starts from: up to MaxLines lines of LinePool,     *)
(* the last one with or without its newline.                               *)
(***************************************************************************)
MaxLines == 2
MaxScans == 2

LinePool ==
    << Tag,
       Tag \o <<" ", "t">>,
       Tag \o <<"t">>,
       Tag \o <<" ">> \o Sigil \o to_base64(EmbeddedId),
       Tag \o <<" ">> \o Sigil \o to_base64(EmbeddedId) \o <<" ", "t">>,
       Tag \o Sigil \o to_base64(EmbeddedId),
       Tag \o <<" ">> \o Sigil \o <<"x", " ", "t">>,
       Tag \o <<" ">> \o Sigil \o <<"!">> \o Drop(to_base64(EmbeddedId), 1) \o <<" ", "t">>,
       <<"b">>,
       <<"-", "-", "-">>,
       <<"a">> \o Tag >>

RECURSIVE JoinLines(_, _)
JoinLines(ls, final_newline) ==
    IF ls = <<>> THEN <<>>
    ELSE IF Len(ls) = 1 THEN LinePool[ls[1]] \o (IF final_newline THEN <<"\n">> ELSE <<>>)
    ELSE LinePool[ls[1]] \o <<"\n">> \o JoinLines(Drop(ls, 1), final_newline)

Documents ==
    { JoinLines(ls, nl) :
        ls \in UNION {[1..n -> 1..Len(LinePool)] : n \in 1..MaxLines},
        nl \in BOOLEAN }

\* the second document: one card lacking an identifier, and its body
OtherDocuments == { Tag \o <<" ", "t", "\n", "b", "\n">> }

Paths == <<"a.md", "b.md">>

ScanIdle ==
    /\ docs = <<>>
    /\ docs0 = <<>>
    /\ rg_status = "not run"
    /\ matches = <<>>
    /\ mi = 0
    /\ written = 0
    /\ prev_path = None
    /\ rng = None
    /\ cards = <<>>
    /\ log = <<>>
    /\ prevCards = <<>>
    /\ prevLog = <<>>
    /\ run = 0
    /\ spc = "off"

CodecIdle ==
    /\ cpc = "off"
    /\ cid = Zero64
    /\ ctoken = <<>>
    /\ cres = None

ReviewIdle ==
    /\ rcards = <<>>
    /\ state_data = <<>>
    /\ file = None
    /\ now = 0
    /\ rpc = "off"
    /\ ci = 0
    /\ retention = 0
    /\ reviews = 0
    /\ events = <<>>

FsrsIdle ==
    /\ fpc = "off"
    /\ fparams = <<>>
    /\ fhistory = <<>>

UiIdle ==
    /\ upc = "off"
    /\ raw_mode = FALSE
    /\ alternate_screen = FALSE
    /\ winsize = 0
    /\ ures = None
    /\ ureturn = "none"
    /\ uevents = 0

StoreIdle ==
    /\ stpc = "off"
    /\ prior = None
    /\ saving = <<>>
    /\ disk = None
    /\ loaded = <<>>

ScanInit ==
    /\ docs \in {[p \in {"a.md", "b.md"} |-> IF p = "a.md" THEN a ELSE b] :
                    a \in Documents, b \in OtherDocuments}
    /\ docs0 = docs
    /\ rg_status = "not run"
    /\ matches = <<>>
    /\ mi = 0
    /\ written = 0
    /\ prev_path = None
    /\ rng = None
    /\ cards = <<>>
    /\ log = <<>>
    /\ prevCards = <<>>
    /\ prevLog = <<>>
    /\ run = 0
    /\ spc = "idle"
    /\ CodecIdle
    /\ ReviewIdle
    /\ StoreIdle
    /\ FsrsIdle
    /\ UiIdle

\* how Command::output() can end: rg could not be started (Err), rg ran and
\* exited with a failure status, rg ran and exited with success
RgOutcomes == {"cannot start", "failed", "ok"}

\* what a failing rg has printed by the time it exits: nothing, or its
\* first match.  What a later run finds after a failed one is not followed
\* up: its documents are those a shorter successful scan leaves.
FailedOutput(found) == {Take(found, n) : n \in {0, 1}}

\* State::new calls initialize_cards: the search tool runs once, on the
\* documents as they are before any patch; `output()?` returns the error
\* when rg cannot be started, and the exit status is never looked at
StartScan ==
    /\ spc \in {"idle", "done", "aborted"}
    /\ rg_status # "failed"
    /\ run < MaxScans
    /\ \E outcome \in RgOutcomes :
        /\ rg_status' = outcome
        /\ IF outcome = "cannot start"
           THEN /\ spc' = "aborted"
                /\ UNCHANGED <<docs0, matches, mi, written, prev_path, rng, cards, log,
                               prevCards, prevLog, run>>
           ELSE /\ spc' = "scanning"
                /\ matches' \in IF outcome = "failed"
                                 THEN FailedOutput(rg(Paths, docs, 1))
                                 ELSE {rg(Paths, docs, 1)}
                /\ docs0' = docs
                /\ mi' = 1
                /\ written' = 0
                /\ prev_path' = None
                /\ rng' = None
                /\ prevCards' = cards
                /\ prevLog' = log
                /\ cards' = <<>>
                /\ log' = <<>>
                /\ run' = run + 1
    /\ UNCHANGED <<docs, codecVars, reviewVars, storeVars, fsrsVars, uiVars>>

\* the closure of initialize_cards up to parse_title, for match mi
cardpath == matches[mi][1]
off == matches[mi][2]

\* the mutant: the counter is carried over from one document to the next
written0Carried == written

written0 == IF Some(cardpath) # prev_path THEN 0 ELSE written
title_line == read_line(docs[cardpath], written0 + off)
body_text == read_body(docs[cardpath], written0 + off + Len(title_line), <<>>)

\* one match: the card takes the identifier its marker carries, or, when
\* parse_title gives None, an identifier is minted and spliced in after
\* the seven bytes of the tag
ScanMatch ==
    /\ spc = "scanning"
    /\ mi <= Len(matches)
    /\ LET line == title_line
           parsed == parse_title(line)
           body == body_text
       IN IF IsSome(parsed)
          THEN /\ cards' = Append(cards, [id |-> Unwrap(parsed)[1],
                                          title |-> Unwrap(parsed)[2],
                                          body |-> body])
               /\ log' = Append(log, [line |-> line, minted |-> FALSE,
                                      path |-> cardpath, off |-> off,
                                      at |-> written0 + off, wrote |-> <<>>,
                                      patched |-> line])
               /\ written' = written0
               /\ UNCHANGED <<docs, rng>>
          ELSE \E g \in IF IsSome(rng) THEN {Unwrap(rng)} ELSE {<<seed, 0>> : seed \in Seeds} :
                    LET id == RandomId(g[1], g[2])
                        token == to_base64(id)
                        p == written0 + off + 7
                    IN /\ rng' = Some(<<g[1], g[2] + 1>>)
                       /\ docs' = [docs EXCEPT ![cardpath] = patch(@, p, token)]
                       /\ written' = written0 + 3 + Len(token)
                       /\ cards' = Append(cards, [id |-> id,
                                                  title |-> rest_title(docs[cardpath], p),
                                                  body |-> body])
                       /\ log' = Append(log, [line |-> line, minted |-> TRUE,
                                              path |-> cardpath, off |-> off,
                                              at |-> written0 + off,
                                              wrote |-> <<" ">> \o Sigil \o token,
                                              patched |-> read_line(patch(docs[cardpath], p, token),
                                                                    written0 + off)])
    /\ prev_path' = Some(cardpath)
    /\ mi' = mi + 1
    /\ UNCHANGED <<docs0, rg_status, matches, prevCards, prevLog, run, spc, codecVars, reviewVars, storeVars, fsrsVars, uiVars>>

\* collect(): every match has been turned into a card
FinishScan ==
    /\ spc = "scanning"
    /\ mi > Len(matches)
    /\ spc' = "done"
    /\ UNCHANGED <<docs, docs0, rg_status, matches, mi, written, prev_path, rng, cards, log,
                   prevCards, prevLog, run, codecVars, reviewVars, storeVars, fsrsVars, uiVars>>

ScanNext == StartScan \/ ScanMatch \/ FinishScan

(***************************************************************************)
(* f32 as fixed point: the integer n stands for n / SCALE.  Products and   *)
(* quotients are taken limb by limb so that no intermediate value leaves   *)
(* the range of the checker's integers; results round toward minus         *)
(* infinity.                                                               *)
(***************************************************************************)
SCALE == 10 ^ 4

Fx(n) == n * SCALE

\* a * b
Mul(a, b) ==
    LET ah == a \div SCALE
        al == a % SCALE
        bh == b \div SCALE
        bl == b % SCALE
    IN ah * bh * SCALE + ah * bl + al * bh + (al * bl) \div SCALE

\* the digits of r / b after the decimal point, for 0 <= r < b
RECURSIVE DivFrac(_, _, _)
DivFrac(r, b, digits) ==
    IF digits = 0 THEN 0
    ELSE ((r * 10) \div b) * 10 ^ (digits - 1) + DivFrac((r * 10) % b, b, digits - 1)

\* a / b, for b # 0
Div(a, b) ==
    IF b < 0 THEN ((0 - a) \div (0 - b)) * SCALE + DivFrac((0 - a) % (0 - b), 0 - b, 4)
    ELSE (a \div b) * SCALE + DivFrac(a % b, b, 4)

LN2 == 6931

\* the Taylor series of e^r for 0 <= r < ln 2, from term n on
RECURSIVE ExpSeries(_, _, _)
ExpSeries(r, term, n) ==
    IF term = 0 \/ n > 12 THEN 0
    ELSE term + ExpSeries(r, Mul(term, r) \div n, n + 1)

\* f32::exp
Exp(x) ==
    LET k == x \div LN2
        r == x - k * LN2
        e == ExpSeries(r, SCALE, 1)
    IN IF k >= 0 THEN e * 2 ^ k ELSE e \div 2 ^ (-k)

\* the series 2 (z + z^3/3 + z^5/5 + ...) of ln((1 + z) / (1 - z))
RECURSIVE LnSeries(_, _, _)
LnSeries(z, power, n) ==
    IF power = 0 \/ n > 15 THEN 0
    ELSE (2 * power) \div n + LnSeries(z, Mul(Mul(power, z), z), n + 2)

\* ln x for x > 0: x = m * 2^k with 1 <= m < 2
RECURSIVE Ln(_)
Ln(x) ==
    IF x >= 2 * SCALE THEN LN2 + Ln(x \div 2)
    ELSE IF x < SCALE THEN Ln(x * 2) - LN2
    ELSE LnSeries(Div(x - SCALE, x + SCALE), Div(x - SCALE, x + SCALE), 1)

\* f32::powf for a positive base
powf(x, y) == IF x = SCALE THEN SCALE ELSE Exp(Mul(y, Ln(x)))

\* f32::clamp
clamp(x, lo, hi) == IF x < lo THEN lo ELSE IF x > hi THEN hi ELSE x

(***************************************************************************)
(* fsrs.rs                                                                 *)
(***************************************************************************)
WEIGHTS ==
    << 2120, 12931, 23065, 82956, 64133, 8334, 30194, 10, 18722, 1666, 7960,
       14835, 614, 2629, 16483, 6014, 18729, 5425, 912, 658, 1542 >>

\* w[i], zero-based
w(i) == WEIGHTS[i + 1]

Again == 1
Hard == 2
Good == 3
Easy == 4
Grades == {Again, Hard, Good, Easy}

\* the mutant: the difficulty is stored as computed
FSRSParams_newUnclamped(stability, difficulty) ==
    [stability |-> stability, difficulty |-> difficulty]

\* FSRSParams::new
FSRSParams_new(stability, difficulty) ==
    [stability |-> stability, difficulty |-> clamp(difficulty, Fx(1), Fx(10))]

\* FSRSParams::from_initial_grade
from_initial_grade(grade) ==
    FSRSParams_new(w(grade - 1),
                   w(4) - Exp(Mul(w(5), Fx(grade) - Fx(1))) + Fx(1))

\* FSRSParams::recall_probability: recall probability after `time` days
factor == powf(9000, Div(-Fx(1), w(20))) - Fx(1)

recall_probability(self, time) ==
    LET s == self.stability
    IN powf(Fx(1) + Div(Mul(factor, time), s), -w(20))

\* FSRSParams::update_successful
update_successful(self, grade) ==
    LET g == Fx(grade)
        s == self.stability
        d == self.difficulty
        r == recall_probability(self, 0)
        increase_d == Fx(11) - d
        increase_s == powf(s, -w(9))
        increase_r == Exp(Mul(w(10), Fx(1) - r) - Fx(1))
        increase == Fx(1) + Mul(Mul(increase_d, increase_s), increase_r)
        delta_d == Mul(-w(6), g - Fx(3))
        d1 == d + Div(Mul(delta_d, Fx(10) - d), Fx(9))
        d2 == Mul(w(7), from_initial_grade(Easy).difficulty) + Mul(Fx(1) - w(7), d1)
    IN FSRSParams_new(Mul(s, increase), d2)

\* f32::max
max(a, b) == IF a >= b THEN a ELSE b

\* FSRSParams::update_same_day
update_same_day(self, grade) ==
    LET g == Fx(grade)
        s == self.stability
        sinc == Mul(Exp(Mul(w(17), g - Fx(3) + w(18))), powf(s, -w(19)))
        s2 == Mul(s, sinc)
    IN FSRSParams_new(IF g >= Fx(3) THEN max(s2, s) ELSE s2, self.difficulty)

(***************************************************************************)
(* main.rs: the review session.  The store (state.data.fsrs_params) maps an      *)
(* identifier token to CardParams; `file` is what cards.json holds.  Time  *)
(* is SystemTime in days, as fixed point.  `events` records, for every     *)
(* card the loop reaches, what was decided and done.                       *)
(***************************************************************************)
MaxCards == 2
MaxReviews == 2
MaxDays == 6

\* identifiers of the located cards
ReviewIds ==
    { Hex64(<<15, 8, 10, 9, 0, 9, 9, 0, 5, 1, 2, 6, 13, 15, 14, 3>>),
      Hex64(<<6, 11, 2, 0, 7, 3, 13, 1, 0, 2, 6, 10, 8, 13, 8, 9>>) }

\* values of --retention on the command line
RetentionArgs == {0, 9000, 15000}

\* how far the clock moves in one step: three days
TickSteps == {Fx(3)}

\* the key of a card in the store: main.rs, `to_base64(card.id)` as a string
token_of(card) == to_base64(card.id)

\* Data::default() and a store with one more entry
EmptyData == <<>>
Insert(d, tok, params) == [k \in DOMAIN d \cup {tok} |-> IF k = tok THEN params ELSE d[k]]

\* review_again, line 215: days since the last review
days_elapsed(params, t) == t - params.last_review

\* the mutant: a card is due when its recall probability is at most the target
dueOrEqual(r, target) == r <= target

\* the mutant: a card is due when its recall probability exceeds the target
dueReversed(r, target) == r > target

\* review_again, line 219: the card is presented
due(r, target) == r < target

\* the mutant: every grade updates the memory state
passesAlways(grade) == grade >= 1

\* review_again, line 221: the grade is a passing one
passes(grade) == grade > 1

\* the mutant: the table is indexed by the grade itself
CardParams_firstOffByOne(grade, t) ==
    [last_review |-> t, fsrs |-> FSRSParams_new(w(grade), from_initial_grade(grade).difficulty)]

\* review_first_time, lines 231-234: the record of a first review
CardParams_first(grade, t) ==
    [last_review |-> t, fsrs |-> from_initial_grade(grade)]

(***************************************************************************)
(* cards.json.  The file is None while it does not exist, and otherwise a  *)
(* sequence of cells.  A cell is one token of a serialization (the opening *)
(* of the map, one of its entries, its closing), one byte of whitespace,   *)
(* or one byte that is neither.                                            *)
(***************************************************************************)
Cell(kind, key, value) == [kind |-> kind, key |-> key, value |-> value]
MapOpen == Cell("{", <<>>, None)
MapClose == Cell("}", <<>>, None)
Blank == Cell(" ", <<>>, None)
Junk == Cell("x", <<>>, None)

\* n cells c
Repeat(c, n) == [i \in 1..n |-> c]

\* serde_json::to_writer(file, &data), as the cells it writes
RECURSIVE EntryCells(_, _)
EntryCells(d, keys) ==
    IF keys = {} THEN <<>>
    ELSE LET k == CHOOSE k \in keys : TRUE
         IN <<Cell("entry", k, Some(d[k]))>> \o EntryCells(d, keys \ {k})

to_writer(d) == <<MapOpen>> \o EntryCells(d, DOMAIN d) \o <<MapClose>>

\* whitespace around a JSON value is skipped
RECURSIVE skip_blank(_)
skip_blank(cells) ==
    IF cells # <<>> /\ cells[1] = Blank THEN skip_blank(Drop(cells, 1))
    ELSE IF cells # <<>> /\ cells[Len(cells)] = Blank THEN skip_blank(Take(cells, Len(cells) - 1))
    ELSE cells

\* serde_json::from_reader(file): Some(mapping) when the file holds one
\* serialization and nothing else but whitespace, None (an Err) otherwise
from_reader(cells) ==
    LET v == skip_blank(cells)
        n == Len(v)
    IN IF n >= 2 /\ v[1] = MapOpen /\ v[n] = MapClose
          /\ \A i \in 2..(n - 1) : v[i].kind = "entry"
       THEN Some([k \in {v[i].key : i \in 2..(n - 1)} |->
                    Unwrap(v[CHOOSE i \in 2..(n - 1) :
                             v[i].key = k /\ \A j \in (i + 1)..(n - 1) : v[j].key # k].value)])
       ELSE None

\* OpenOptions .read(true).write(true).create(true): the content of the
\* opened file, empty when the file had to be created
open(f) == IF IsSome(f) THEN Unwrap(f) ELSE <<>>

\* the mutant: a load that keeps the entries it can find in a damaged file
load_dataSalvaging(cells) ==
    LET found == {i \in 1..Len(cells) : cells[i].kind = "entry"}
    IN [k \in {cells[i].key : i \in found} |->
          Unwrap(cells[CHOOSE i \in found : cells[i].key = k].value)]

\* data.rs load_data, main.rs line 149: .unwrap_or_else(|_| Data::default())
load_data(cells) ==
    LET r == from_reader(cells) IN IF IsSome(r) THEN Unwrap(r) ELSE EmptyData

\* a write of `new` at position pos of the file
write_at(cells, pos, new) == Take(cells, pos) \o new \o Drop(cells, pos + Len(new))

\* main.rs State::save: seek to the start, write
State_save(cells, d) == write_at(cells, 0, to_writer(d))

\* data.rs save_data: set_len(0), seek to the start, write
save_data(cells, d) == write_at(<<>>, 0, to_writer(d))

\* cards.json before the first run: not there, or not a serialization
InitialFiles == {None, Some(Repeat(Junk, 6))}

ReviewInit ==
    /\ rcards \in UNION {[1..n -> [id : ReviewIds]] : n \in 1..MaxCards}
    /\ state_data = EmptyData
    /\ file \in InitialFiles
    /\ now = 0
    /\ rpc = "idle"
    /\ ci = 0
    /\ retention = 0
    /\ reviews = 0
    /\ events = <<>>
    /\ CodecIdle
    /\ ScanIdle
    /\ StoreIdle
    /\ FsrsIdle
    /\ UiIdle

Stopped == rpc \in {"idle", "done", "failed"}

\* `cardsharp init`: State::new, then save
InitCommand ==
    /\ Stopped
    /\ state_data' = load_data(open(file))
    /\ file' = Some(State_save(open(file), load_data(open(file))))
    /\ events' = <<>>
    /\ ci' = 0
    /\ rpc' = "done"
    /\ UNCHANGED <<rcards, now, retention, reviews, codecVars, scanVars, storeVars, fsrsVars, uiVars>>

\* `cardsharp review --retention a`: State::new opens cards.json, creating
\* it when it is missing, and loads the store
StartSession ==
    /\ Stopped
    /\ \E a \in RetentionArgs : retention' = a
    /\ state_data' = load_data(open(file))
    /\ file' = Some(open(file))
    /\ events' = <<>>
    /\ ci' = 1
    /\ rpc' = "loop"
    /\ UNCHANGED <<rcards, now, reviews, codecVars, scanVars, storeVars, fsrsVars, uiVars>>

\* the card the loop is at, its key and what the loop has recorded for it
card == rcards[ci]
Last(es) == es[Len(es)]
SetLast(es, e) == [es EXCEPT ![Len(es)] = e]

\* Entry::Occupied: review_again decides whether the card is presented
DecideAgain ==
    /\ rpc = "loop"
    /\ ci <= Len(rcards)
    /\ LET tok == token_of(card)
       IN /\ tok \in DOMAIN state_data
          /\ LET r == recall_probability(state_data[tok].fsrs, days_elapsed(state_data[tok], now))
                 t == clamp(retention, 0, Fx(1))
             IN /\ events' = Append(events,
                       [tok |-> tok, had |-> TRUE, before |-> Some(state_data[tok]),
                        seen |-> now, target |-> t, presented |-> due(r, t),
                        grade |-> 0, at |-> now, after |-> Some(state_data[tok])])
                /\ IF due(r, t)
                   THEN rpc' = "again" /\ ci' = ci
                   ELSE rpc' = "loop" /\ ci' = ci + 1
    /\ UNCHANGED <<rcards, state_data, file, now, retention, reviews, codecVars, scanVars, storeVars, fsrsVars, uiVars>>

\* Entry::Vacant: review_first_time presents the card
DecideFirst ==
    /\ rpc = "loop"
    /\ ci <= Len(rcards)
    /\ LET tok == token_of(card)
       IN /\ tok \notin DOMAIN state_data
          /\ events' = Append(events,
                 [tok |-> tok, had |-> FALSE, before |-> None,
                  seen |-> now, target |-> clamp(retention, 0, Fx(1)), presented |-> TRUE,
                  grade |-> 0, at |-> now, after |-> None])
    /\ rpc' = "first"
    /\ UNCHANGED <<rcards, state_data, file, now, ci, retention, reviews, codecVars, scanVars, storeVars, fsrsVars, uiVars>>

\* review_card returns a grade inside review_again
GradeAgain ==
    /\ rpc = "again"
    /\ reviews < MaxReviews
    /\ reviews' = reviews + 1
    /\ \E grade \in Grades :
        LET tok == token_of(card)
            params == IF passes(grade)
                      THEN [state_data[tok] EXCEPT !.fsrs = update_successful(@, grade)]
                      ELSE state_data[tok]
        IN /\ state_data' = [state_data EXCEPT ![tok] = params]
           /\ events' = SetLast(events, [Last(events) EXCEPT
                            !.grade = grade, !.at = now, !.after = Some(params)])
    /\ ci' = ci + 1
    /\ rpc' = "loop"
    /\ UNCHANGED <<rcards, file, now, retention, codecVars, scanVars, storeVars, fsrsVars, uiVars>>

\* review_card fails inside review_again: main drops the result of
\* review_again and goes on to the next card
FailAgain ==
    /\ rpc = "again"
    /\ ci' = ci + 1
    /\ rpc' = "loop"
    /\ UNCHANGED <<rcards, state_data, file, now, retention, reviews, events, codecVars, scanVars, storeVars, fsrsVars, uiVars>>

\* review_card returns a grade inside review_first_time
GradeFirst ==
    /\ rpc = "first"
    /\ reviews < MaxReviews
    /\ reviews' = reviews + 1
    /\ \E grade \in Grades :
        LET tok == token_of(card)
            params == CardParams_first(grade, now)
        IN /\ state_data' = Insert(state_data, tok, params)
           /\ events' = SetLast(events, [Last(events) EXCEPT
                            !.grade = grade, !.at = now, !.after = Some(params)])
    /\ ci' = ci + 1
    /\ rpc' = "loop"
    /\ UNCHANGED <<rcards, file, now, retention, codecVars, scanVars, storeVars, fsrsVars, uiVars>>

\* review_card fails inside review_first_time: `?` returns the error from
\* main, before state.save()
FailFirst ==
    /\ rpc = "first"
    /\ rpc' = "failed"
    /\ UNCHANGED <<rcards, state_data, file, now, ci, retention, reviews, events, codecVars, scanVars, storeVars, fsrsVars, uiVars>>

\* the loop is over: state.save(), and main returns Ok
SaveAndExit ==
    /\ rpc = "loop"
    /\ ci > Len(rcards)
    /\ file' = Some(State_save(open(file), state_data))
    /\ rpc' = "done"
    /\ UNCHANGED <<rcards, state_data, now, ci, retention, reviews, events, codecVars, scanVars, storeVars, fsrsVars, uiVars>>

\* time passes between runs (a run is short against the three-day step)
Tick ==
    /\ Stopped
    /\ \E d \in TickSteps :
        /\ now + d <= Fx(MaxDays)
        /\ now' = now + d
    /\ UNCHANGED <<rcards, state_data, file, rpc, ci, retention, reviews, events, codecVars, scanVars, storeVars, fsrsVars, uiVars>>

ReviewNext ==
    \/ InitCommand
    \/ StartSession
    \/ DecideAgain
    \/ DecideFirst
    \/ GradeAgain
    \/ FailAgain
    \/ GradeFirst
    \/ FailFirst
    \/ SaveAndExit
    \/ Tick

(***************************************************************************)
(* Identifiers the codec is exercised on: the values of the unit tests of  *)
(* base64.rs, zero, all ones, and every value with a single bit set or a   *)
(* single bit clear.                                                       *)
(***************************************************************************)
TestIds ==
    { Hex64(<<15, 8, 10, 9, 0, 9, 9, 0, 5, 1, 2, 6, 13, 15, 14, 3>>),
      Hex64(<<6, 11, 2, 0, 7, 3, 13, 1, 0, 2, 6, 10, 8, 13, 8, 9>>),
      Hex64(<<15, 14, 7, 10, 15, 4, 1, 13, 15, 4, 2, 9, 11, 14, 8, 3>>),
      Hex64(<<7, 5, 11, 13, 3, 6, 11, 5, 7, 8, 15, 7, 14, 12, 2, 10>>),
      Hex64(<<15, 4, 14, 8, 2, 7, 13, 2, 15, 5, 4, 10, 8, 14, 3, 11>>) }

OneHot(k) == Bits([i \in 1..(U64Bits \div LimbBits) |-> BitOfLimb(i, k)])
OneCold(k) == Bits([i \in 1..(U64Bits \div LimbBits) |-> 2^LimbBits - 1 - BitOfLimb(i, k)])

CodecIds ==
    TestIds \cup {Zero64, Bits([i \in 1..(U64Bits \div LimbBits) |-> 2^LimbBits - 1])}
            \cup {OneHot(k) : k \in 1..U64Bits}
            \cup {OneCold(k) : k \in 1..U64Bits}

CodecInit ==
    /\ cpc = "start"
    /\ cid \in CodecIds
    /\ ctoken = <<>>
    /\ cres = None
    /\ ScanIdle
    /\ ReviewIdle
    /\ StoreIdle
    /\ FsrsIdle
    /\ UiIdle

Encode ==
    /\ cpc = "start"
    /\ ctoken' = to_base64(cid)
    /\ cpc' = "encoded"
    /\ UNCHANGED <<cid, cres, scanVars, reviewVars, storeVars, fsrsVars, uiVars>>

Decode ==
    /\ cpc = "encoded"
    /\ cres' = from_base64(ctoken)
    /\ cpc' = "decoded"
    /\ UNCHANGED <<cid, ctoken, scanVars, reviewVars, storeVars, fsrsVars, uiVars>>

\* what a character is replaced by in a token handed to from_base64: the
\* two characters of the unit test `decoding`, a blank, and the padding
Intruders == {"_", "!", " ", "="}

\* the tokens from_base64 is handed besides the encodings: the encoding of
\* cid cut short or extended, and with one or two characters replaced
Tampered(token) ==
    {<<>>, Take(token, 11), Append(token, "A"), Append(token, "=")}
        \cup {[token EXCEPT ![k] = c] : k \in 1..Len(token), c \in Intruders}
        \cup {[token EXCEPT ![j] = "=", ![k] = c] :
                 j \in {1, 3, 11}, k \in 1..Len(token), c \in {"_", "!"}}

\* from_base64 on a string that to_base64 did not produce
DecodeTampered ==
    /\ cpc = "start"
    /\ cid \in TestIds
    /\ \E token \in Tampered(to_base64(cid)) :
        /\ ctoken' = token
        /\ cres' = from_base64(token)
    /\ cpc' = "rejecting"
    /\ UNCHANGED <<cid, scanVars, reviewVars, storeVars, fsrsVars, uiVars>>

CodecNext == Encode \/ Decode \/ DecodeTampered

(***************************************************************************)
(* The store on its own: a mapping is saved over a file of any content,    *)
(* by State::save or by save_data, and the file is loaded again.           *)
(***************************************************************************)
StoreTokens ==
    { to_base64(Hex64(<<15, 8, 10, 9, 0, 9, 9, 0, 5, 1, 2, 6, 13, 15, 14, 3>>)),
      to_base64(Hex64(<<6, 11, 2, 0, 7, 3, 13, 1, 0, 2, 6, 10, 8, 13, 8, 9>>)) }

\* mappings with no, one or two entries
StoreMappings ==
    {EmptyData}
        \cup {Insert(EmptyData, t, CardParams_first(g, 0)) : t \in StoreTokens, g \in {Again, Good}}
        \cup {[t \in StoreTokens |-> CardParams_first(Good, Fx(3))]}

\* what the file holds before the save: nothing (missing, or empty), only
\* whitespace, something that is no serialization, a serialization cut
\* short, or a whole one
PriorContents ==
    {None, Some(<<>>), Some(Repeat(Blank, 6)), Some(<<Junk>>), Some(Repeat(Junk, 6)),
     Some(<<MapOpen>>)}
        \cup {Some(to_writer(d)) : d \in StoreMappings}

StoreInit ==
    /\ stpc = "start"
    /\ prior \in PriorContents
    /\ saving \in StoreMappings
    /\ disk = prior
    /\ loaded = EmptyData
    /\ CodecIdle
    /\ ScanIdle
    /\ ReviewIdle
    /\ FsrsIdle
    /\ UiIdle

\* main.rs: State::new opens the file, State::save writes the mapping
StateSave ==
    /\ stpc = "start"
    /\ disk' = Some(State_save(open(disk), saving))
    /\ stpc' = "State::save"
    /\ UNCHANGED <<prior, saving, loaded, codecVars, scanVars, reviewVars, fsrsVars, uiVars>>

\* data.rs: open_data opens the file, save_data writes the mapping
SaveData ==
    /\ stpc = "start"
    /\ disk' = Some(save_data(open(disk), saving))
    /\ stpc' = "save_data"
    /\ UNCHANGED <<prior, saving, loaded, codecVars, scanVars, reviewVars, fsrsVars, uiVars>>

\* the next run loads the file
LoadSaved ==
    /\ stpc \in {"State::save", "save_data"}
    /\ loaded' = load_data(open(disk))
    /\ stpc' = IF stpc = "State::save" THEN "loaded after State::save"
                ELSE "loaded after save_data"
    /\ UNCHANGED <<prior, saving, disk, codecVars, scanVars, reviewVars, fsrsVars, uiVars>>

\* a run that saves nothing loads the file as it is
LoadPrior ==
    /\ stpc = "start"
    /\ loaded' = load_data(open(disk))
    /\ disk' = Some(open(disk))
    /\ stpc' = "loaded"
    /\ UNCHANGED <<prior, saving, codecVars, scanVars, reviewVars, fsrsVars, uiVars>>

StoreNext == StateSave \/ SaveData \/ LoadSaved \/ LoadPrior

(***************************************************************************)
(* The memory model on its own: a state made by from_initial_grade and     *)
(* taken through up to MaxUpdates updates of either kind.                  *)
(***************************************************************************)
MaxUpdates == 3

FsrsInit ==
    /\ fpc = "new"
    /\ fparams = <<>>
    /\ fhistory = <<>>
    /\ CodecIdle
    /\ ScanIdle
    /\ ReviewIdle
    /\ StoreIdle
    /\ UiIdle

InitialGrade ==
    /\ fpc = "new"
    /\ \E grade \in Grades :
        /\ fparams' = from_initial_grade(grade)
        /\ fhistory' = << <<"from_initial_grade", grade>> >>
    /\ fpc' = "made"
    /\ UNCHANGED <<codecVars, scanVars, reviewVars, storeVars, uiVars>>

UpdateSuccessful ==
    /\ fpc = "made"
    /\ Len(fhistory) <= MaxUpdates
    /\ \E grade \in Grades :
        /\ fparams' = update_successful(fparams, grade)
        /\ fhistory' = Append(fhistory, <<"update_successful", grade>>)
    /\ UNCHANGED <<fpc, codecVars, scanVars, reviewVars, storeVars, uiVars>>

UpdateSameDay ==
    /\ fpc = "made"
    /\ Len(fhistory) <= MaxUpdates
    /\ \E grade \in Grades :
        /\ fparams' = update_same_day(fparams, grade)
        /\ fhistory' = Append(fhistory, <<"update_same_day", grade>>)
    /\ UNCHANGED <<fpc, codecVars, scanVars, reviewVars, storeVars, uiVars>>

FsrsNext == InitialGrade \/ UpdateSuccessful \/ UpdateSameDay

(***************************************************************************)
(* ui.rs: review_card.  The terminal is in raw mode or not and shows the   *)
(* alternate screen or not; every call that can fail (`?`) either succeeds *)
(* or makes review_card return the error at once, leaving the terminal as  *)
(* it is at that point.                                                    *)
(***************************************************************************)
MaxEvents == 4

\* anyhow::Result<Option<Grade>>
Ok(v) == <<"Ok", v>>
Err == <<"Err">>

\* terminal::window_size(): the columns of the window
Sizes == {80, 120}

\* what crossterm::event::read() delivers: key presses (Ctrl-c is the key c
\* with the CONTROL modifier, x any other key), a resize, any other event
KeyEvents == {"Esc", "q", "Ctrl-c", "1", "2", "3", " ", "4", "x"}
UiEvents == KeyEvents \cup {"Resize", "Other"}

\* the keys that leave the front of the card with the abort value
FrontAbortKeys == {"Esc", "q", "Ctrl-c"}

\* the keys that leave the back of the card with the abort value
BackAbortKeys == {"Esc", "q"}

\* the grade of a key on the back of the card
KeyGrade ==
    [k \in {"1", "2", "3", " ", "4"} |->
        CASE k = "1" -> Again
          [] k = "2" -> Hard
          [] k \in {"3", " "} -> Good
          [] k = "4" -> Easy]

UiInit ==
    /\ upc = "called"
    /\ raw_mode = FALSE
    /\ alternate_screen = FALSE
    /\ winsize = 0
    /\ ures = None
    /\ ureturn = "none"
    /\ uevents = 0
    /\ CodecIdle
    /\ ScanIdle
    /\ ReviewIdle
    /\ StoreIdle
    /\ FsrsIdle

\* a `?` that takes the error branch: review_card returns Err from there
ReturnErr ==
    /\ upc' = "returned"
    /\ ures' = Err
    /\ ureturn' = "error"

\* let mut winsize = terminal::window_size()?
WindowSize ==
    /\ upc = "called"
    /\ \/ /\ winsize' \in Sizes
          /\ upc' = "entering"
          /\ UNCHANGED <<ures, ureturn>>
       \/ /\ ReturnErr
          /\ UNCHANGED winsize
    /\ UNCHANGED <<raw_mode, alternate_screen, uevents,
                   codecVars, scanVars, reviewVars, storeVars, fsrsVars>>

\* execute!(&mut stdout, EnterAlternateScreen)?
EnterAlternateScreen ==
    /\ upc = "entering"
    /\ \/ /\ alternate_screen' = TRUE
          /\ upc' = "enabling"
          /\ UNCHANGED <<ures, ureturn>>
       \/ /\ ReturnErr
          /\ UNCHANGED alternate_screen
    /\ UNCHANGED <<raw_mode, winsize, uevents,
                   codecVars, scanVars, reviewVars, storeVars, fsrsVars>>

\* crossterm::terminal::enable_raw_mode()?
EnableRawMode ==
    /\ upc = "enabling"
    /\ \/ /\ raw_mode' = TRUE
          /\ upc' = "front"
          /\ UNCHANGED <<ures, ureturn>>
       \/ /\ ReturnErr
          /\ UNCHANGED raw_mode
    /\ UNCHANGED <<alternate_screen, winsize, uevents,
                   codecVars, scanVars, reviewVars, storeVars, fsrsVars>>

\* one pass of the first loop: draw the front of the card, read an event
FrontPass ==
    /\ upc = "front"
    /\ uevents < MaxEvents
    /\ \/ \* drawing, flushing or reading fails
          /\ ReturnErr
          /\ UNCHANGED <<winsize, uevents>>
       \/ \E ev \in UiEvents :
             /\ uevents' = uevents + 1
             /\ IF ev \in FrontAbortKeys
                THEN /\ upc' = "returned"
                     /\ ures' = Ok(None)
                     /\ ureturn' = "front abort"
                     /\ UNCHANGED winsize
                ELSE IF ev \in KeyEvents
                THEN /\ upc' = "back"
                     /\ UNCHANGED <<winsize, ures, ureturn>>
                ELSE IF ev = "Resize"
                THEN \/ /\ winsize' \in Sizes
                        /\ UNCHANGED <<upc, ures, ureturn>>
                     \/ /\ ReturnErr
                        /\ UNCHANGED winsize
                ELSE UNCHANGED <<upc, winsize, ures, ureturn>>
    /\ UNCHANGED <<raw_mode, alternate_screen,
                   codecVars, scanVars, reviewVars, storeVars, fsrsVars>>

\* one pass of the second loop: draw the back of the card (raw mode is
\* switched off for the print and on again), read an event
BackPass ==
    /\ upc = "back"
    /\ uevents < MaxEvents
    /\ \/ \* drawing, disable_raw_mode, flushing or reading fails
          /\ ReturnErr
          /\ UNCHANGED <<raw_mode, winsize, uevents>>
       \/ \* enable_raw_mode fails after disable_raw_mode succeeded
          /\ ReturnErr
          /\ raw_mode' = FALSE
          /\ UNCHANGED <<winsize, uevents>>
       \/ \E ev \in UiEvents :
             /\ uevents' = uevents + 1
             /\ raw_mode' = TRUE
             /\ IF ev \in DOMAIN KeyGrade
                THEN /\ upc' = "leaving"
                     /\ ures' = Ok(Some(KeyGrade[ev]))
                     /\ ureturn' = "grade"
                     /\ UNCHANGED winsize
                ELSE IF ev \in BackAbortKeys
                THEN /\ upc' = "leaving"
                     /\ ures' = Ok(None)
                     /\ ureturn' = "back abort"
                     /\ UNCHANGED winsize
                ELSE IF ev = "Resize"
                THEN \/ /\ winsize' \in Sizes
                        /\ UNCHANGED <<upc, ures, ureturn>>
                     \/ /\ ReturnErr
                        /\ UNCHANGED winsize
                ELSE UNCHANGED <<upc, winsize, ures, ureturn>>
    /\ UNCHANGED <<alternate_screen,
                   codecVars, scanVars, reviewVars, storeVars, fsrsVars>>

\* crossterm::terminal::disable_raw_mode()? after the second loop
DisableRawMode ==
    /\ upc = "leaving"
    /\ \/ /\ raw_mode' = FALSE
          /\ upc' = "leaving screen"
          /\ UNCHANGED <<ures, ureturn>>
       \/ /\ ReturnErr
          /\ UNCHANGED raw_mode
    /\ UNCHANGED <<alternate_screen, winsize, uevents,
                   codecVars, scanVars, reviewVars, storeVars, fsrsVars>>

\* execute!(std::io::stdout(), LeaveAlternateScreen)?; res
LeaveAlternateScreen ==
    /\ upc = "leaving screen"
    /\ \/ /\ alternate_screen' = FALSE
          /\ upc' = "returned"
          /\ UNCHANGED <<ures, ureturn>>
       \/ /\ ReturnErr
          /\ UNCHANGED alternate_screen
    /\ UNCHANGED <<raw_mode, winsize, uevents,
                   codecVars, scanVars, reviewVars, storeVars, fsrsVars>>

UiNext ==
    \/ WindowSize
    \/ EnterAlternateScreen
    \/ EnableRawMode
    \/ FrontPass
    \/ BackPass
    \/ DisableRawMode
    \/ LeaveAlternateScreen

vars == <<codecVars, scanVars, reviewVars, storeVars, fsrsVars, uiVars>>

SpecCodec == CodecInit /\ [][CodecNext]_vars

SpecScan == ScanInit /\ [][ScanNext]_vars

SpecReview == ReviewInit /\ [][ReviewNext]_vars

SpecStore == StoreInit /\ [][StoreNext]_vars

SpecFsrs == FsrsInit /\ [][FsrsNext]_vars

SpecUi == UiInit /\ [][UiNext]_vars

\* C10: for every 64-bit identifier id, from_base64(to_base64(id)) returns id.
CodecRoundTrip == cpc = "decoded" => cres = Some(cid)

\* a decoded identifier whose low four bits and high bits are both in use
CodecRoundTripWitness ==
    /\ cpc = "decoded"
    /\ cid = Hex64(<<15, 8, 10, 9, 0, 9, 9, 0, 5, 1, 2, 6, 13, 15, 14, 3>>)
    /\ ctoken = <<"+", "K", "k", "J", "k", "F", "E", "m", "3", "+", "M", "=">>
    /\ cres = Some(cid)

\* the characters of a token that are neither one of the 64 symbols nor the
\* padding character
OutsideAlphabet(token) ==
    {k \in 1..Len(token) : ~IsSome(position(token[k])) /\ token[k] # "="}

\* C11: codec rejection.  from_base64 returns None for every input whose
\* length is not the token length, and for every input that holds, at any
\* position, a character outside the 64-symbol alphabet.
CodecRejects ==
    (cpc = "rejecting" /\ (Len(ctoken) # 12 \/ OutsideAlphabet(ctoken) # {}))
        => cres = None

(***************************************************************************)
(* Card locator claims                                                     *)
(***************************************************************************)
\* a marker line that carries no identifier token: the tag, then anything
\* that does not open with the sigil
NoIdToken(line) == StartsWith(line, Tag) /\ ~StartsWith(trim_start(Drop(line, 7)), Sigil)

\* C1: marker round-trip.  When a scan has minted an identifier for a marker
\* line without a token, the next scan of the patched documents yields for
\* that card the minted identifier, the same title (as presented, trimmed)
\* and the same body, and mints nothing for it.
MarkerRoundTrip ==
    (spc = "done" /\ run >= 2 /\ rg_status = "ok") =>
        \A i \in 1..Len(prevCards) :
            (prevLog[i].minted /\ NoIdToken(prevLog[i].line)) =>
                /\ i <= Len(cards)
                /\ ~log[i].minted
                /\ cards[i].id = prevCards[i].id
                /\ trim(cards[i].title) = trim(prevCards[i].title)
                /\ cards[i].body = prevCards[i].body

\* the identifier a marker line embeds, by the marker syntax: the tag
\* (optional), whitespace (optional), the sigil, and a token that runs to
\* the next whitespace or to the end of the line
EmbeddedToken(line) ==
    LET t1 == IF StartsWith(line, Tag) THEN Drop(line, 7) ELSE line
        t2 == trim_start(t1)
        t3 == Drop(t2, 2)
        ws == FindWhitespace(t3)
    IN IF ~StartsWith(t2, Sigil) THEN None
       ELSE from_base64(IF IsSome(ws) THEN Take(t3, Unwrap(ws)) ELSE t3)

\* C2: an embedded identifier is never regenerated.  Every scanned marker
\* line whose token decodes gives its card exactly the decoded identifier,
\* and nothing is minted or written for it.
EmbeddedIdKept ==
    \A i \in 1..Len(log) :
        IsSome(EmbeddedToken(log[i].line)) =>
            /\ ~log[i].minted
            /\ cards[i].id = Unwrap(EmbeddedToken(log[i].line))

\* the token a marker line carries after the tag, optional whitespace and the
\* sigil, up to the next whitespace: Some(token), or None without a sigil
TokenOf(line) ==
    LET t2 == trim_start(Drop(line, 7))
        t3 == Drop(t2, 2)
        ws == FindWhitespace(t3)
    IN IF ~(StartsWith(line, Tag) /\ StartsWith(t2, Sigil)) THEN None
       ELSE Some(IF IsSome(ws) THEN Take(t3, Unwrap(ws)) ELSE t3)

\* a marker line whose token does not decode
Malformed(line) == IsSome(TokenOf(line)) /\ ~IsSome(from_base64(Unwrap(TokenOf(line))))

\* how often p occurs in s
Occurrences(s, p) ==
    Cardinality({k \in 0..(Len(s) - Len(p)) : SubSeq(s, k + 1, k + Len(p)) = p})

\* C15: a malformed identifier token is handled like an absent one, and the
\* minted sigil+token overwrites it: after the patch the marker line holds
\* exactly one sigil, and the malformed token is neither in the line
\* nor in the title of the card.
MalformedOverwritten ==
    \A i \in 1..Len(log) :
        Malformed(log[i].line) =>
            LET bad == Unwrap(TokenOf(log[i].line))
            IN /\ log[i].minted
               /\ Occurrences(log[i].patched, Sigil) = 1
               /\ ~Contains(log[i].patched, bad)
               /\ ~Contains(cards[i].title, bad)

\* a line without the newline that may end it
Chomp(line) ==
    IF line # <<>> /\ line[Len(line)] = "\n" THEN Take(line, Len(line) - 1) ELSE line

\* the lines of content from pos on, up to and not including the first that
\* is a marker line or consists solely of `---`, or up to the end of file
RECURSIVE BodyExtent(_, _)
BodyExtent(content, pos) ==
    LET line == read_line(content, pos)
    IN IF line = <<>> \/ StartsWith(line, Tag) \/ Chomp(line) = <<"-", "-", "-">>
       THEN <<>>
       ELSE line \o BodyExtent(content, pos + Len(line))

\* C18: body extent.  The body of a card is exactly the lines after its
\* marker line up to, and not including, the first following marker line or
\* line consisting solely of `---`, or up to the end of the file, whether or
\* not the last line ends with a newline; a marker on the last line has an
\* empty body.
BodyIsExtent ==
    \A i \in 1..Len(log) :
        cards[i].body = BodyExtent(docs0[log[i].path], log[i].off + Len(log[i].line))

\* the document of match i as the scan found it
Original(i) == docs0[log[i].path]

\* the bytes inserted into the document of match i by the matches before it
RECURSIVE InsertedBefore(_, _)
InsertedBefore(i, j) ==
    IF j = 0 THEN 0
    ELSE InsertedBefore(i, j - 1) + (IF log[j].path = log[i].path THEN Len(log[j].wrote) ELSE 0)

\* the title a marker line carries after its tag, sigil and token: the text
\* that follows the first whitespace after the sigil
AfterToken(line) ==
    LET t3 == Drop(trim_start(Drop(line, 7)), 2)
        ws == FindWhitespace(t3)
    IN IF IsSome(ws) THEN Drop(t3, Unwrap(ws) + 1) ELSE <<>>

\* C19: offset correction.  Every match is read at its original offset plus
\* the bytes inserted earlier in the same document (none for the first match
\* of a document): the line read is the line the match had in the original
\* document, title and body of the card come from that line and the lines
\* after it, and a minted sigil+token lands immediately after the tag of that
\* marker line.
OffsetCorrected ==
    \A i \in 1..Len(log) :
        LET e == log[i]
            own == read_line(Original(i), e.off)
        IN /\ e.at = e.off + InsertedBefore(i, i - 1)
           /\ (i = 1 \/ log[i - 1].path # e.path) => e.at = e.off
           /\ e.line = own
           /\ cards[i].body = read_body(Original(i), e.off + Len(own), <<>>)
           /\ ~e.minted => cards[i].title = AfterToken(own)
           /\ e.minted => cards[i].title = Chomp(Drop(own, 7))
           /\ (e.minted /\ StartsWith(own, Tag)) =>
                 (e.wrote = <<" ">> \o Sigil \o to_base64(cards[i].id)
                  /\ e.patched = Tag \o e.wrote \o Drop(own, 7))

\* two markers of one document were patched, the second one fifteen bytes
\* after its original offset, and then the marker of the next document at
\* its original offset
OffsetCorrectedWitness ==
    /\ spc = "done" /\ rg_status = "ok" /\ Len(log) = 3
    /\ log[1].minted /\ log[2].minted /\ log[3].minted
    /\ log[1].path = "a.md" /\ log[2].path = "a.md" /\ log[3].path = "b.md"
    /\ log[2].off > 0 /\ log[2].at = log[2].off + 15
    /\ log[3].at = log[3].off

\* a marker that lacks a valid identifier: a line beginning with the tag that
\* embeds no token, or one that does not decode
LacksIdentifier(line) == StartsWith(line, Tag) /\ ~IsSome(EmbeddedToken(line))

\* how many lines of content, from pos on, are markers lacking an identifier
RECURSIVE MarkersLacking(_, _)
MarkersLacking(content, pos) ==
    IF pos >= Len(content) THEN 0
    ELSE LET line == read_line(content, pos)
         IN (IF LacksIdentifier(line) THEN 1 ELSE 0)
                + MarkersLacking(content, pos + Len(line))

\* content, a state of the document at path, with the bytes deleted that
\* matches j, j - 1, ..., 1 inserted into it
RECURSIVE Unpatched(_, _, _)
Unpatched(path, content, j) ==
    IF j = 0 THEN content
    ELSE LET e == log[j]
             p == e.at + 7
         IN Unpatched(path,
                      IF e.path = path /\ e.minted
                      THEN Take(content, p) \o Drop(content, p + Len(e.wrote))
                      ELSE content,
                      j - 1)

\* the matches of the scan so far that wrote to the document at path
Writes(path) == {i \in 1..Len(log) : log[i].path = path /\ log[i].minted}

\* C20: patch frame.  A scan writes to a document exactly at the markers
\* that lack a valid identifier, and what it writes there is the sigil (after
\* one separating space) and the encoded token of the card, directly after
\* the tag; deleting the inserted bytes gives back the original document;
\* and a document without a marker lacking an identifier is not written.
PatchFrame ==
    spc \in {"scanning", "done"} =>
        /\ \A i \in 1..Len(log) :
              LET e == log[i]
              IN /\ e.minted <=> LacksIdentifier(e.line)
                 /\ e.minted =>
                       /\ e.wrote = <<" ">> \o Sigil \o to_base64(cards[i].id)
                       /\ e.patched = Tag \o e.wrote \o Drop(e.line, 7)
        /\ \A k \in 1..Len(Paths) :
              LET path == Paths[k]
              IN /\ Unpatched(path, docs[path], Len(log)) = docs0[path]
                 /\ MarkersLacking(docs0[path], 0) = 0 =>
                       (Writes(path) = {} /\ docs[path] = docs0[path])

\* C14: a missing or failing search-tool invocation is fatal for the run.
\* When rg cannot be started or exits with a failure status, initialize_cards
\* returns the error: no match is processed and no list of cards reaches
\* main, which would present them and save the store.
FailingSearchIsFatal ==
    rg_status \in {"cannot start", "failed"} => spc = "aborted"

(***************************************************************************)
(* Memory model claims                                                     *)
(***************************************************************************)
\* C16: difficulty bound.  Starting from from_initial_grade(g), after any
\* sequence of update_successful and update_same_day with any grades, the
\* difficulty is at least 1 and at most 10.
DifficultyBounded ==
    fpc = "made" => (Fx(1) <= fparams.difficulty /\ fparams.difficulty <= Fx(10))

\* a state first graded Again (difficulty above 6), then passed as Easy
\* until the clamp holds it at 1, with a same-day update in between
DifficultyBoundedWitness ==
    /\ fpc = "made"
    /\ Len(fhistory) = MaxUpdates + 1
    /\ fhistory[1] = <<"from_initial_grade", Again>>
    /\ \E i \in 2..Len(fhistory) : fhistory[i][1] = "update_same_day"
    /\ \E i \in 2..Len(fhistory) : fhistory[i] = <<"update_successful", Easy>>
    /\ fparams.difficulty < w(4)

(***************************************************************************)
(* Store claims                                                            *)
(***************************************************************************)
\* C12: saving replaces the content of the file entirely.  Whatever the file
\* held before, after a save the file holds the serialization of the saved
\* mapping and nothing else, and a load returns exactly that mapping.
SaveReplacesContent ==
    stpc \in {"loaded after State::save", "loaded after save_data"} =>
        (loaded = saving /\ disk = Some(to_writer(saving)))

(***************************************************************************)
(* Review session claims                                                   *)
(***************************************************************************)
Events == {events[i] : i \in 1..Len(events)}
Graded(e) == e.grade \in Grades

\* the recall probability of an event's card when the loop reached it
RecallAt(e) ==
    recall_probability(Unwrap(e.before).fsrs, e.seen - Unwrap(e.before).last_review)

\* the target retention of the pass: the command-line value, within [0, 1]
Target == IF retention < 0 THEN 0 ELSE IF retention > Fx(1) THEN Fx(1) ELSE retention

\* C13: loading never fails the run.  A session whose cards.json is missing,
\* empty or unparsable starts from the empty mapping and goes on: every card
\* the loop reaches is presented as a card without a record, unless it was
\* graded earlier in the same pass.
LoadNeverFails ==
    (rpc \in {"loop", "first", "again"} /\ ~IsSome(from_reader(open(file)))) =>
        /\ events = <<>> => state_data = EmptyData
        /\ \A i \in 1..Len(events) :
              \/ ~events[i].had /\ events[i].presented
              \/ \E j \in 1..(i - 1) : events[j].tok = events[i].tok /\ Graded(events[j])

\* a session over an unparsable cards.json in which a card was presented as
\* new and graded, after an earlier run had saved over the same file
LoadNeverFailsWitness ==
    /\ rpc = "loop"
    /\ IsSome(file) /\ Len(Unwrap(file)) = 6
    /\ Unwrap(file)[1] = MapOpen /\ Unwrap(file)[6] = Junk
    /\ \E e \in Events : ~e.had /\ Graded(e)

\* the stability after a passing review, for a recall probability r at the
\* time of the review (fsrs.rs lines 54-57 and 66)
StabilityAfter(self, r) ==
    LET s == self.stability
        d == self.difficulty
        increase == Fx(1) + Mul(Mul(Fx(11) - d, powf(s, -w(9))),
                                Exp(Mul(w(10), Fx(1) - r) - Fx(1)))
    IN Mul(s, increase)

\* C17: the stability update of a passing review takes the recall
\* probability at review time, the value the due decision computed from the
\* days elapsed since the last review.
StabilityUsesRecallAtReview ==
    \A e \in Events :
        (e.had /\ e.presented /\ e.grade \in {Hard, Good, Easy}) =>
            Unwrap(e.after).fsrs.stability = StabilityAfter(Unwrap(e.before).fsrs, RecallAt(e))

\* C3: due-skip rule.  A card that has a record is presented if and only if
\* its recall probability after the days elapsed since its last review is
\* below the clamped target retention; a card that is not presented is not
\* graded and keeps its record.
DueSkipRule ==
    \A i \in 1..Len(events) :
        LET e == events[i]
        IN e.had =>
            /\ e.target = Target
            /\ e.presented <=> RecallAt(e) < Target
            /\ RecallAt(e) >= Target =>
                /\ ~Graded(e)
                /\ e.after = e.before
                /\ i = Len(events) => state_data[e.tok] = Unwrap(e.before)
            /\ (i = Len(events) /\ rpc = "again") => e.presented

\* in one pass, one card with a record is skipped and another is presented
DueSkipRuleWitness ==
    \E e1, e2 \in Events :
        /\ e1.had /\ e2.had
        /\ Target = 9000
        /\ ~e1.presented /\ RecallAt(e1) >= Target
        /\ e2.presented /\ Graded(e2) /\ RecallAt(e2) < Target

\* the difficulties the unit test initial_state of fsrs.rs expects
DifficultyEps == SCALE \div 1000
ExpectedDifficulty(grade) ==
    LET del == Exp(w(5))
        raw == CASE grade = Again -> w(4)
                 [] grade = Hard -> w(4) - del + Fx(1)
                 [] grade = Good -> w(4) - Mul(del, del) + Fx(1)
                 [] grade = Easy -> w(4) - Mul(Mul(del, del), del) + Fx(1)
    IN IF raw < Fx(1) THEN Fx(1) ELSE IF raw > Fx(10) THEN Fx(10) ELSE raw

\* C4: first-time review.  A card without a record is presented whatever the
\* target retention; once graded g, the store holds under its token a record
\* with the table stability of g and the clamped grade difficulty.
FirstTimeReview ==
    \A i \in 1..Len(events) :
        LET e == events[i]
        IN ~e.had =>
            /\ e.presented
            /\ (i = Len(events) /\ ~Graded(e)) => rpc \in {"first", "failed"}
            /\ Graded(e) =>
                LET rec == Unwrap(e.after)
                IN /\ rec.fsrs.stability = WEIGHTS[e.grade]
                   /\ e.grade = Good => rec.fsrs.stability = 23065
                   /\ rec.fsrs.difficulty >= Fx(1)
                   /\ rec.fsrs.difficulty <= Fx(10)
                   /\ rec.fsrs.difficulty - ExpectedDifficulty(e.grade) <= DifficultyEps
                   /\ ExpectedDifficulty(e.grade) - rec.fsrs.difficulty <= DifficultyEps
                   /\ rec.last_review = e.at
                   /\ i = Len(events) =>
                        (e.tok \in DOMAIN state_data /\ state_data[e.tok] = rec)

\* a new card graded Good in a pass whose target retention is 0
FirstTimeReviewWitness ==
    \E e \in Events :
        /\ ~e.had /\ e.grade = Good /\ Target = 0
        /\ e.tok \in DOMAIN state_data
        /\ state_data[e.tok].fsrs.stability = 23065
        /\ rpc = "done"

\* C5: after a card with a record is presented and given a passing grade,
\* the stored last-review timestamp is the time of that review.
LastReviewIsLatest ==
    \A e \in Events :
        (e.had /\ e.presented /\ e.grade \in {Hard, Good, Easy}) =>
            Unwrap(e.after).last_review = e.at

\* C6: when a session ends early, every review recorded earlier in it is in
\* the persisted store.
ProgressPreserved ==
    rpc = "failed" =>
        \A e \in Events :
            Graded(e) => (e.tok \in DOMAIN load_data(open(file))
                          /\ load_data(open(file))[e.tok] = state_data[e.tok])

\* C7: a review session that is not aborted ends only after a pass in which
\* no card was reviewed.
EndsOnlyAfterEmptyPass ==
    (rpc = "done" /\ ci > 0) => \A e \in Events : ~Graded(e)

\* C8: grading Again a card that has a record leaves its stability and
\* difficulty as they were before the review.
AgainKeepsMemoryState ==
    \A i \in 1..Len(events) :
        LET e == events[i]
        IN (e.had /\ e.presented /\ e.grade = Again) =>
            /\ Unwrap(e.after).fsrs = Unwrap(e.before).fsrs
            /\ i = Len(events) => state_data[e.tok].fsrs = Unwrap(e.before).fsrs

\* a card with a record was presented and graded Again
AgainKeepsMemoryStateWitness ==
    \E e \in Events : e.had /\ e.presented /\ e.grade = Again /\ rpc = "done"

\* C9 as stated: with target retention 0 every card that has a record is
\* presented.
ZeroRetentionPresentsAll ==
    \A e \in Events : (e.had /\ Target = 0) => e.presented

\* C9 as amended: with target retention 0 no card that has a record is
\* presented, and its record stays as it is.
ZeroRetentionPresentsNone ==
    \A e \in Events :
        (e.had /\ Target = 0) => (~e.presented /\ ~Graded(e) /\ e.after = e.before)

\* six days after its only review a card is skipped under target retention 0
ZeroRetentionPresentsNoneWitness ==
    \E e \in Events :
        /\ e.had /\ Target = 0 /\ ~e.presented
        /\ e.seen - Unwrap(e.before).last_review = Fx(6)
        /\ RecallAt(e) < 9000

(***************************************************************************)
(* Card screen claims                                                      *)
(***************************************************************************)
\* C21: terminal restoration.  Whenever review_card has returned a grade, or
\* the abort value from the front or from the back of the card, raw mode is
\* disabled and the alternate screen has been left.
TerminalRestored ==
    (upc = "returned" /\ ureturn \in {"grade", "front abort", "back abort"}) =>
        (~raw_mode /\ ~alternate_screen)

====
